---- MODULE Spec2Model ----
(***************************************************************************)
(* Content layer of Newton's Repository (app.py): the Content Store        *)
(* (get_article_content), the Content Analyzer (calculate_reading_time,    *)
(* get_excerpt, parse_content) and the Navigation Resolver                 *)
(* (get_category_articles, get_prev_next_articles, get_latest_article)     *)
(* over the catalog BLOG_CATEGORIES.                                       *)
(*                                                                         *)
(* A text is a sequence of one-character strings.  Python's None is the    *)
(* record None; a present value v is Some(v).                              *)
(***************************************************************************)
EXTENDS Integers, Sequences, FiniteSets, TLC

VARIABLES
    BLOG_CATEGORIES,  \* the catalog: sequence of categories in insertion order
    files,            \* the file system: resolved path -> content
    text,             \* the text handed to the Content Analyzer
    result            \* what the last call returned (and its arguments)

vars == <<BLOG_CATEGORIES, files, text, result>>

(***************************************************************************)
(* Generic helpers                                                         *)
(***************************************************************************)
NoCall == [op |-> "none"]
None == [some |-> FALSE]
Some(v) == [some |-> TRUE, val |-> v]

Max(a, b) == IF a >= b THEN a ELSE b
Min(a, b) == IF a <= b THEN a ELSE b
MinOf(S) == CHOOSE x \in S : \A y \in S : x <= y
MaxOf(S) == CHOOSE x \in S : \A y \in S : x >= y

\* n copies of the character c
Rep(c, n) == [i \in 1..n |-> c]

\* s[a..b], Python slice semantics on 1-based inclusive positions
Slice(s, a, b) == IF a > b THEN <<>> ELSE SubSeq(s, a, b)

RECURSIVE Concat(_)
Concat(ss) == IF ss = <<>> THEN <<>> ELSE Head(ss) \o Concat(Tail(ss))

(***************************************************************************)
(* Character classes of str.split(), str.strip() and the regex classes     *)
(* \s, \d used by app.py                                                   *)
(***************************************************************************)
Whitespace == {" ", "\n", "\t"}
Digits == {"0", "1", "2", "3", "4", "5", "6", "7", "8", "9"}
IsSpace(c) == c \in Whitespace
IsBlank(s) == \A i \in 1..Len(s) : IsSpace(s[i])

\* str.strip(): leading and trailing whitespace removed
strip(s) ==
    IF IsBlank(s) THEN <<>>
    ELSE LET nonsp == {i \in 1..Len(s) : ~IsSpace(s[i])}
         IN  SubSeq(s, MinOf(nonsp), MaxOf(nonsp))

\* last position of the whitespace run that starts at position i
RunEnd(s, i) ==
    MaxOf({j \in i..Len(s) : \A k \in i..j : IsSpace(s[k])})

(***************************************************************************)
(* calculate_reading_time                                                  *)
(***************************************************************************)
WORDS_PER_MINUTE == 200

\* len(text.split()): the number of maximal runs of non-whitespace
WordCount(s) ==
    Cardinality({i \in 1..Len(s) :
                    ~IsSpace(s[i]) /\ (i = 1 \/ IsSpace(s[i - 1]))})

RoundDivFloor(n, d) == n \div d
\* Python 3 round(n / d) for n >= 0, d > 0 even: to the nearest integer, a tie
\* (n/d exactly k + 1/2) going to the even neighbour
round_div(n, d) ==
    LET q == n \div d
        r == n % d
    IN  IF 2 * r < d THEN q
        ELSE IF 2 * r > d THEN q + 1
        ELSE IF q % 2 = 0 THEN q ELSE q + 1

calculate_reading_time(s) ==
    LET words == WordCount(s)
    IN  Max(1, round_div(words, WORDS_PER_MINUTE))

(***************************************************************************)
(* get_excerpt                                                             *)
(***************************************************************************)
EXCERPT_MAX == 200
EXCERPT_KEEP == 197
DEFAULT_SENTENCE_COUNT == 2
Terminators == {".", "!", "?"}
Ellipsis == <<".", ".", ".">>

\* start positions >= p of a match of (?<=[.!?])\s+ : whitespace right after
\* a terminator
SentenceBreaks(s, p) ==
    {i \in p..Len(s) : i > 1 /\ IsSpace(s[i]) /\ s[i - 1] \in Terminators}

\* re.split(r'(?<=[.!?])\s+', s), scanning from position p: the leftmost
\* match is cut out (its \s+ greedy), the piece before it kept
RECURSIVE re_split_sentences(_, _)
re_split_sentences(s, p) ==
    LET breaks == SentenceBreaks(s, p)
    IN  IF breaks = {} THEN <<Slice(s, p, Len(s))>>
        ELSE LET i == MinOf(breaks)
             IN  <<Slice(s, p, i - 1)>> \o re_split_sentences(s, RunEnd(s, i) + 1)

\* ' '.join(parts)
RECURSIVE join_space(_)
join_space(parts) ==
    IF parts = <<>> THEN <<>>
    ELSE IF Len(parts) = 1 THEN parts[1]
    ELSE parts[1] \o <<" ">> \o join_space(Tail(parts))

\* sentences[:n] for n >= 0
Take(parts, n) == Slice(parts, 1, Min(n, Len(parts)))

GetExcerptCutAtMax(s, sentence_count) ==
    LET sentences == re_split_sentences(strip(s), 1)
        excerpt == join_space(Take(sentences, sentence_count))
    IN  IF Len(excerpt) > EXCERPT_MAX
        THEN Slice(excerpt, 1, EXCERPT_MAX) \o Ellipsis
        ELSE excerpt
get_excerpt(s, sentence_count) ==
    LET sentences == re_split_sentences(strip(s), 1)
        excerpt == join_space(Take(sentences, sentence_count))
    IN  IF Len(excerpt) > EXCERPT_MAX
        THEN Slice(excerpt, 1, EXCERPT_KEEP) \o Ellipsis
        ELSE excerpt

(***************************************************************************)
(* parse_content                                                           *)
(***************************************************************************)
HEADING_MAX_LEN == 80

\* positions >= p where "\n\n" starts
ParaBreaks(s, p) ==
    {i \in p..(Len(s) - 1) : s[i] = "\n" /\ s[i + 1] = "\n"}

\* text.split("\n\n"), scanning from position p: leftmost occurrence first,
\* occurrences do not overlap
RECURSIVE split_paragraphs(_, _)
split_paragraphs(s, p) ==
    LET breaks == ParaBreaks(s, p)
    IN  IF breaks = {} THEN <<Slice(s, p, Len(s))>>
        ELSE LET i == MinOf(breaks)
             IN  <<Slice(s, p, i - 1)>> \o split_paragraphs(s, i + 2)

\* [p.strip() for p in pieces if p.strip()]
RECURSIVE strip_nonblank(_)
strip_nonblank(pieces) ==
    IF pieces = <<>> THEN <<>>
    ELSE IF strip(Head(pieces)) = <<>> THEN strip_nonblank(Tail(pieces))
    ELSE <<strip(Head(pieces))>> \o strip_nonblank(Tail(pieces))

\* re.IGNORECASE on the letters of "Part"
Lower(c) ==
    CASE c = "P" -> "p" [] c = "A" -> "a" [] c = "R" -> "r" [] c = "T" -> "t"
      [] OTHER -> c

\* re.match(r'^Part\s+\d+', para, re.IGNORECASE)
MatchesPartPrefix(para) ==
    /\ Len(para) >= 6
    /\ <<Lower(para[1]), Lower(para[2]), Lower(para[3]), Lower(para[4])>>
          = <<"p", "a", "r", "t">>
    /\ IsSpace(para[5])
    /\ RunEnd(para, 5) < Len(para)
    /\ para[RunEnd(para, 5) + 1] \in Digits

\* para.endswith('.')
EndsWithPeriod(para) == Len(para) >= 1 /\ para[Len(para)] = "."

IsHeadingLenInclusive(para) ==
    MatchesPartPrefix(para)
       \/ (Len(para) <= HEADING_MAX_LEN /\ ~EndsWithPeriod(para))
is_heading(para) ==
    MatchesPartPrefix(para)
       \/ (Len(para) < HEADING_MAX_LEN /\ ~EndsWithPeriod(para))

Block(para) ==
    [type |-> IF is_heading(para) THEN "heading" ELSE "paragraph",
     content |-> para]

parse_content(s) ==
    LET paras == strip_nonblank(split_paragraphs(s, 1))
    IN  [k \in 1..Len(paras) |-> Block(paras[k])]

(***************************************************************************)
(* Content Store: get_article_content                                      *)
(*                                                                         *)
(* A filename is the sequence of its "/"-separated segments ("../app.py"   *)
(* is <<"..", "app.py">>, "/etc/passwd" is <<"", "etc", "passwd">>); a     *)
(* resolved path is the sequence of names from the file system root.  The  *)
(* file system maps each existing file's resolved path to its text.        *)
(***************************************************************************)
ROOT_PATH == <<"srv", "app">>
ARTICLES_DIR == ROOT_PATH \o <<"articles">>

IsAbsolute(name) == Len(name) >= 2 /\ name[1] = ""

\* os.path.join(app.root_path, "articles", filename): an absolute last
\* component discards the ones before it
JoinPath(name) ==
    IF IsAbsolute(name) THEN Tail(name) ELSE ARTICLES_DIR \o name

\* the directories of a file system: the articles directory and every
\* directory on the way to a file
Directories(fs) ==
    UNION {{Slice(p, 1, k) : k \in 0..(Len(p) - 1)} :
              p \in DOMAIN fs \cup {ARTICLES_DIR \o <<"any">>}}

\* the operating system's walk along the path when it is opened: "." stays,
\* ".." goes up, a name that is not the last must be a directory (None: no
\* such file or directory)
RECURSIVE Resolve(_, _, _)
Resolve(fs, done, rest) ==
    IF rest = <<>> THEN Some(done)
    ELSE IF Head(rest) \in {".", ""} THEN Resolve(fs, done, Tail(rest))
    ELSE IF Head(rest) = ".."
         THEN Resolve(fs, Slice(done, 1, Len(done) - 1), Tail(rest))
    ELSE IF Tail(rest) # <<>> /\ Append(done, Head(rest)) \notin Directories(fs)
         THEN None
    ELSE Resolve(fs, Append(done, Head(rest)), Tail(rest))

\* the resolved path of the file that open() opens, None when there is none
OpenPath(fs, name) ==
    LET at == Resolve(fs, <<>>, JoinPath(name))
    IN  IF at.some /\ at.val \in DOMAIN fs THEN at ELSE None

\* the text of the file, None on FileNotFoundError
get_article_content(fs, filename) ==
    LET filepath == OpenPath(fs, filename)
    IN  IF filepath.some THEN Some(fs[filepath.val]) ELSE None

\* Python truthiness of get_article_content's value: None and "" are false
Truthy(content) == content.some /\ content.val # <<>>

(***************************************************************************)
(* Navigation Resolver over the catalog                                    *)
(*                                                                         *)
(* The catalog is the sequence of its categories in insertion order, each  *)
(* keyed by its id; a category keeps id, name and the list of articles.    *)
(***************************************************************************)
\* BLOG_CATEGORIES.get(category_id)
lookup_category(cats, category_id) ==
    IF \E k \in 1..Len(cats) : cats[k].id = category_id
    THEN Some(cats[CHOOSE k \in 1..Len(cats) : cats[k].id = category_id])
    ELSE None

\* sorted(seq, key=part): stable, ascending
NotSorted(seq) == seq
sorted_by_part(seq) ==
    LET rank(i) == Cardinality({j \in 1..Len(seq) :
                                   \/ seq[j].part < seq[i].part
                                   \/ (seq[j].part = seq[i].part /\ j < i)}) + 1
    IN  [k \in 1..Len(seq) |-> seq[CHOOSE i \in 1..Len(seq) : rank(i) = k]]

\* the view of one article in get_category_articles
CategoryArticleViewEmptyDefault(fs, article, category_id) ==
    LET content == get_article_content(fs, article.filename)
        shown == IF content.some THEN content.val ELSE <<>>
    IN  [id |-> article.id, title |-> article.title, date |-> article.date,
         filename |-> article.filename, part |-> article.part,
         reading_time |-> calculate_reading_time(shown),
         excerpt |-> get_excerpt(shown, DEFAULT_SENTENCE_COUNT),
         category_id |-> category_id]
category_article_view(fs, article, category_id) ==
    LET content == get_article_content(fs, article.filename)
    IN  [id |-> article.id, title |-> article.title, date |-> article.date,
         filename |-> article.filename, part |-> article.part,
         reading_time |-> IF Truthy(content)
                          THEN calculate_reading_time(content.val) ELSE 0,
         excerpt |-> IF Truthy(content)
                     THEN get_excerpt(content.val, DEFAULT_SENTENCE_COUNT)
                     ELSE <<>>,
         category_id |-> category_id]

\* (category, articles) of get_category_articles
get_category_articles(cats, fs, category_id) ==
    LET category == lookup_category(cats, category_id)
    IN  IF ~category.some
        THEN [category |-> None, articles |-> <<>>]
        ELSE LET list == category.val.articles
                 articles == [k \in 1..Len(list) |->
                                 category_article_view(fs, list[k], category_id)]
             IN  [category |-> category, articles |-> sorted_by_part(articles)]

\* the loop of get_prev_next_articles over the first k articles of the list
RECURSIVE prev_next_scan(_, _, _)
prev_next_scan(list, current_part, k) ==
    IF k = 0 THEN [prev |-> None, next |-> None]
    ELSE LET before == prev_next_scan(list, current_part, k - 1)
         IN  IF list[k].part = current_part - 1
             THEN [before EXCEPT !.prev = Some(list[k])]
             ELSE IF list[k].part = current_part + 1
             THEN [before EXCEPT !.next = Some(list[k])]
             ELSE before

\* the neighbours by list position of the article with part current_part
PrevNextByPosition(cats, category_id, current_part) ==
    LET category == lookup_category(cats, category_id)
    IN  IF ~category.some THEN [prev |-> None, next |-> None]
        ELSE LET list == category.val.articles
                 at == {k \in 1..Len(list) : list[k].part = current_part}
             IN  IF at = {} THEN [prev |-> None, next |-> None]
                 ELSE LET k == MinOf(at)
                      IN  [prev |-> IF k > 1 THEN Some(list[k - 1]) ELSE None,
                           next |-> IF k < Len(list) THEN Some(list[k + 1])
                                    ELSE None]
get_prev_next_articles(cats, category_id, current_part) ==
    LET category == lookup_category(cats, category_id)
    IN  IF ~category.some THEN [prev |-> None, next |-> None]
        ELSE prev_next_scan(category.val.articles, current_part,
                            Len(category.val.articles))

\* the decimal number written by a sequence of digits
DigitValue(c) == CHOOSE v \in 0..9 : <<"0", "1", "2", "3", "4", "5", "6", "7", "8", "9">>[v + 1] = c
RECURSIVE Number(_)
Number(ds) ==
    IF ds = <<>> THEN 0
    ELSE 10 * Number(Slice(ds, 1, Len(ds) - 1)) + DigitValue(ds[Len(ds)])

\* datetime.strptime(date, "%Y-%m-%d") of a well-formed date: <<year, month, day>>
strptime(date) ==
    LET dashes == {i \in 1..Len(date) : date[i] = "-"}
        d1 == MinOf(dashes)
        d2 == MaxOf(dashes)
    IN  <<Number(Slice(date, 1, d1 - 1)), Number(Slice(date, d1 + 1, d2 - 1)),
          Number(Slice(date, d2 + 1, Len(date)))>>

\* article_date > latest_date on datetimes
DateAfterOrEqual(a, b) ==
    \/ a[1] > b[1]
    \/ (a[1] = b[1] /\ a[2] > b[2])
    \/ (a[1] = b[1] /\ a[2] = b[2] /\ a[3] >= b[3])
date_after(a, b) ==
    \/ a[1] > b[1]
    \/ (a[1] = b[1] /\ a[2] > b[2])
    \/ (a[1] = b[1] /\ a[2] = b[2] /\ a[3] > b[3])

\* the (category, article) pairs in the order the two nested loops of
\* get_latest_article visit them
FirstCategoryOnly(cats) ==
    IF cats = <<>> THEN <<>>
    ELSE [k \in 1..Len(Head(cats).articles) |->
             [category |-> Head(cats), article |-> Head(cats).articles[k]]]
RECURSIVE iteration_order(_)
iteration_order(cats) ==
    IF cats = <<>> THEN <<>>
    ELSE [k \in 1..Len(Head(cats).articles) |->
             [category |-> Head(cats), article |-> Head(cats).articles[k]]]
         \o iteration_order(Tail(cats))

\* latest, latest_category after the first k visits (latest_date is
\* strptime of latest's date)
RECURSIVE latest_scan(_, _)
latest_scan(visits, k) ==
    IF k = 0 THEN None
    ELSE LET before == latest_scan(visits, k - 1)
         IN  IF ~before.some
                \/ date_after(strptime(visits[k].article.date),
                              strptime(before.val.article.date))
             THEN Some(visits[k])
             ELSE before

\* the view get_latest_article builds of the article it chose
latest_article_view(fs, latest, latest_category) ==
    LET content == get_article_content(fs, latest.filename)
    IN  [id |-> latest.id, title |-> latest.title, date |-> latest.date,
         filename |-> latest.filename, part |-> latest.part,
         category_id |-> latest_category.id,
         category_name |-> latest_category.name,
         excerpt |-> IF Truthy(content)
                     THEN get_excerpt(content.val, DEFAULT_SENTENCE_COUNT)
                     ELSE <<>>,
         reading_time |-> IF Truthy(content)
                          THEN calculate_reading_time(content.val) ELSE 0]

get_latest_article(cats, fs) ==
    LET visits == iteration_order(cats)
        found == latest_scan(visits, Len(visits))
    IN  IF found.some
        THEN Some(latest_article_view(fs, found.val.article, found.val.category))
        ELSE None

(***************************************************************************)
(* The site as a state machine: the catalog and the article files are set  *)
(* at start-up and never written; a request calls one function, whose      *)
(* return value is held in result until the response is sent.              *)
(***************************************************************************)
MaxArticles == 3
MaxPart == 3

File1 == <<"article1.txt">>
File2 == <<"article2.txt">>
File3 == <<"article3.txt">>

Date_2023_12_31 == <<"2", "0", "2", "3", "-", "1", "2", "-", "3", "1">>
Date_2024_01_15 == <<"2", "0", "2", "4", "-", "0", "1", "-", "1", "5">>
Date_2024_06_01 == <<"2", "0", "2", "4", "-", "0", "6", "-", "0", "1">>

Article(id, title, date, filename, part) ==
    [id |-> id, title |-> title, date |-> date, filename |-> filename,
     part |-> part]

ArticlePool ==
    {Article("a1", "One", Date_2024_01_15, File1, 1),
     Article("a2", "Two", Date_2024_06_01, File2, 2),
     Article("a3", "Three", Date_2024_06_01, File1, 3),
     Article("a4", "Four", Date_2024_06_01, File2, 1),
     Article("a5", "Five", Date_2023_12_31, File3, 2)}

CategoryIds == {"c1", "c2"}
UnknownCategoryId == "nonexistent"
Category(id, articles) ==
    [id |-> id, name |-> IF id = "c1" THEN "First" ELSE "Second",
     articles |-> articles]

\* article lists: distinct articles, part numbers unique positive integers
ArticleLists ==
    {l \in UNION {[1..n -> ArticlePool] : n \in 0..MaxArticles} :
        \A i, j \in 1..Len(l) : i # j => l[i].part # l[j].part}

Catalogs ==
    {<<>>}
      \cup {<<Category(c, l)>> : c \in CategoryIds, l \in ArticleLists}
      \cup {<<Category(c[1], l[1]), Category(c[2], l[2])>> :
               c \in {d \in CategoryIds \X CategoryIds : d[1] # d[2]},
               l \in {m \in ArticleLists \X ArticleLists :
                         Len(m[1]) + Len(m[2]) <= MaxArticles}}

\* what a file of the articles directory may hold
FileTexts ==
    {<<>>,
     <<"H", "i", ".", " ", "Y", "o", "!", " ", " ", "o", "k">>}
OutsideFiles ==
    (ROOT_PATH \o <<"app.py">>) :> <<"k", "e", "y">>
       @@ <<"etc", "passwd">> :> <<"r", "o", "o", "t">>

\* File3 is never there
FileSystems ==
    {OutsideFiles @@ inside :
        inside \in UNION {[paths -> FileTexts] :
                             paths \in SUBSET {ARTICLES_DIR \o File1,
                                               ARTICLES_DIR \o File2}}}

\* filenames handed to get_article_content
RequestedFilenames ==
    {File1, File2, File3, <<"..", "app.py">>, <<"", "etc", "passwd">>,
     <<"missing.txt">>}

Init ==
    /\ BLOG_CATEGORIES \in Catalogs
    /\ files \in FileSystems
    /\ text = <<>>
    /\ result = NoCall

GetArticleContent(filename) ==
    /\ result = NoCall
    /\ result' = [op |-> "get_article_content", filename |-> filename,
                  opened |-> OpenPath(files, filename),
                  value |-> get_article_content(files, filename)]
    /\ UNCHANGED <<BLOG_CATEGORIES, files, text>>

GetCategoryArticles(category_id) ==
    /\ result = NoCall
    /\ result' = [op |-> "get_category_articles", category_id |-> category_id,
                  value |-> get_category_articles(BLOG_CATEGORIES, files,
                                                  category_id)]
    /\ UNCHANGED <<BLOG_CATEGORIES, files, text>>

GetPrevNextArticles(category_id, current_part) ==
    /\ result = NoCall
    /\ result' = [op |-> "get_prev_next_articles", category_id |-> category_id,
                  current_part |-> current_part,
                  value |-> get_prev_next_articles(BLOG_CATEGORIES, category_id,
                                                   current_part)]
    /\ UNCHANGED <<BLOG_CATEGORIES, files, text>>

GetLatestArticle ==
    /\ result = NoCall
    /\ result' = [op |-> "get_latest_article",
                  value |-> get_latest_article(BLOG_CATEGORIES, files)]
    /\ UNCHANGED <<BLOG_CATEGORIES, files, text>>

\* the response is sent and the request is over
Respond ==
    /\ result # NoCall
    /\ result' = NoCall
    /\ UNCHANGED <<BLOG_CATEGORIES, files, text>>

Next ==
    \/ \E filename \in RequestedFilenames : GetArticleContent(filename)
    \/ \E category_id \in CategoryIds \cup {UnknownCategoryId} :
          GetCategoryArticles(category_id)
    \/ \E category_id \in CategoryIds \cup {UnknownCategoryId},
          current_part \in 0..(MaxPart + 1) :
          GetPrevNextArticles(category_id, current_part)
    \/ GetLatestArticle
    \/ Respond

Spec == Init /\ [][Next]_vars

(***************************************************************************)
(* Properties of the Navigation Resolver and the Content Store             *)
(***************************************************************************)
Range(seq) == {seq[k] : k \in 1..Len(seq)}

\* the articles of the category with this id (none for an unknown id)
ArticlesOf(category_id) ==
    UNION {Range(BLOG_CATEGORIES[k].articles) :
              k \in {j \in 1..Len(BLOG_CATEGORIES) :
                        BLOG_CATEGORIES[j].id = category_id}}

UniqueParts ==
    \A k \in 1..Len(BLOG_CATEGORIES) :
        \A i, j \in 1..Len(BLOG_CATEGORIES[k].articles) :
            i # j => BLOG_CATEGORIES[k].articles[i].part
                        # BLOG_CATEGORIES[k].articles[j].part

\* the article of the set with this part number, None when there is none
WithPart(articles, part) ==
    IF \E a \in articles : a.part = part
    THEN Some(CHOOSE a \in articles : a.part = part)
    ELSE None

\* C1: with part numbers unique within a category, get_prev_next_articles
\* returns the article of the category with part current_part - 1 (absent when
\* there is none) and the one with part current_part + 1 (absent when there is
\* none), looked up by part number and not by list position; both are absent
\* for an unknown category.
C1_PrevNextByPartNumber ==
    (result.op = "get_prev_next_articles" /\ UniqueParts) =>
        LET articles == ArticlesOf(result.category_id)
        IN  /\ result.value.prev = WithPart(articles, result.current_part - 1)
            /\ result.value.next = WithPart(articles, result.current_part + 1)
            /\ (result.category_id = UnknownCategoryId =>
                   result.value = [prev |-> None, next |-> None])
            /\ (articles # {}
                  /\ result.current_part = MinOf({a.part : a \in articles})
                  => result.value.prev = None)

\* a category with parts {1, 3} stored with part 1 first, asked at part 3:
\* the article before it in the list is not its prev
C1_Witness ==
    /\ result.op = "get_prev_next_articles"
    /\ result.current_part = 3
    /\ \E k \in 1..Len(BLOG_CATEGORIES) :
          /\ BLOG_CATEGORIES[k].id = result.category_id
          /\ Len(BLOG_CATEGORIES[k].articles) = 2
          /\ BLOG_CATEGORIES[k].articles[1].part = 1
          /\ BLOG_CATEGORIES[k].articles[2].part = 3
    /\ result.value = [prev |-> None, next |-> None]

\* places <<k, i>> of the catalog: article i of category k
Places ==
    {p \in (1..Len(BLOG_CATEGORIES)) \X (1..MaxArticles + 1) :
        p[2] <= Len(BLOG_CATEGORIES[p[1]].articles)}
ArticleAt(p) == BLOG_CATEGORIES[p[1]].articles[p[2]]
PlaceBefore(p, q) == p[1] < q[1] \/ (p[1] = q[1] /\ p[2] < q[2])

\* calendar order of two ISO dates, read off their year, month and day digits
DateKey(date) ==
    10000 * Number(SubSeq(date, 1, 4)) + 100 * Number(SubSeq(date, 6, 7))
       + Number(SubSeq(date, 9, 10))

\* the places holding the maximum date
LatestPlaces ==
    {p \in Places :
        \A q \in Places : DateKey(ArticleAt(q).date) <= DateKey(ArticleAt(p).date)}
FirstLatestPlace ==
    CHOOSE p \in LatestPlaces : \A q \in LatestPlaces : p = q \/ PlaceBefore(p, q)

\* C2: for a catalog with at least one article, get_latest_article returns the
\* view of an article with the maximum date, the first such in iteration order
\* (categories in insertion order, articles in list order), with the id and
\* name of the category that contains it.
C2_LatestIsFirstMaxDate ==
    (result.op = "get_latest_article" /\ Places # {}) =>
        /\ result.value.some
        /\ LET view == result.value.val
               p == FirstLatestPlace
           IN  /\ \A q \in Places : DateKey(ArticleAt(q).date) <= DateKey(view.date)
               /\ view.id = ArticleAt(p).id
               /\ view.title = ArticleAt(p).title
               /\ view.date = ArticleAt(p).date
               /\ view.filename = ArticleAt(p).filename
               /\ view.part = ArticleAt(p).part
               /\ view.category_id = BLOG_CATEGORIES[p[1]].id
               /\ view.category_name = BLOG_CATEGORIES[p[1]].name

\* the maximum date is shared by an article of each category, and the first
\* of them is not the first article of the catalog
C2_Witness ==
    /\ result.op = "get_latest_article"
    /\ result.value.some
    /\ \E p, q \in LatestPlaces : p[1] # q[1]
    /\ FirstLatestPlace # <<1, 1>>
    /\ result.value.val.category_id = BLOG_CATEGORIES[FirstLatestPlace[1]].id

\* C3 as stated: for every catalog with at least one category, whatever its
\* article lists hold, get_latest_article returns a view and not absent.
C3_AbsentOnlyIfCatalogEmpty ==
    (result.op = "get_latest_article" /\ BLOG_CATEGORIES # <<>>) =>
        result.value.some

\* C3 amended: get_latest_article returns absent exactly when the catalog
\* holds no article (it is empty, or every category's article list is empty).
C3_AbsentIffNoArticle ==
    result.op = "get_latest_article" =>
        (result.value.some <=>
            \E k \in 1..Len(BLOG_CATEGORIES) : BLOG_CATEGORIES[k].articles # <<>>)

\* a catalog of two categories, only the second holding articles: a view
C3_Witness ==
    /\ result.op = "get_latest_article"
    /\ Len(BLOG_CATEGORIES) = 2
    /\ BLOG_CATEGORIES[1].articles = <<>>
    /\ BLOG_CATEGORIES[2].articles # <<>>
    /\ result.value.some

\* C4: get_category_articles returns (absent, empty) for an unknown id;
\* otherwise the category and exactly one view per article of it, each with
\* the article's id, title, date, filename and part plus category_id, in
\* ascending order of part whatever the order of the list.
C4_CategoryArticlesSorted ==
    result.op = "get_category_articles" =>
        LET category == result.value.category
            views == result.value.articles
            known == \E k \in 1..Len(BLOG_CATEGORIES) :
                        BLOG_CATEGORIES[k].id = result.category_id
        IN  /\ ~known => (category = None /\ views = <<>>)
            /\ known =>
                  /\ category.some
                  /\ category.val \in Range(BLOG_CATEGORIES)
                  /\ category.val.id = result.category_id
                  /\ Len(views) = Len(category.val.articles)
                  /\ \A a \in Range(category.val.articles) :
                        \E k \in 1..Len(views) :
                            /\ views[k].id = a.id
                            /\ views[k].title = a.title
                            /\ views[k].date = a.date
                            /\ views[k].filename = a.filename
                            /\ views[k].part = a.part
                            /\ views[k].category_id = result.category_id
                            /\ \A j \in 1..Len(views) :
                                  views[j].id = a.id => j = k
                  /\ \A i, j \in 1..Len(views) :
                        i < j => views[i].part <= views[j].part

\* a category that lists its three articles out of order
C4_Witness ==
    /\ result.op = "get_category_articles"
    /\ result.value.category.some
    /\ Len(result.value.articles) = 3
    /\ result.value.category.val.articles[1].part = 3
    /\ result.value.category.val.articles[3].part = 2
    /\ result.value.articles[1].part = 1

\* the article files a view may name
ArticleFiles == {a.filename : a \in ArticlePool}

\* the file system with the file of this name holding this text
WithFile(fs, filename, content) ==
    ((ARTICLES_DIR \o filename) :> content) @@ fs

Missing(filename) == ~get_article_content(files, filename).some

\* C5: a missing content file is not fatal to the listings: an article whose
\* file cannot be read gets reading_time 0 and excerpt "", the call returns
\* as usual, and the views of the articles with other files are what they
\* would be if the file existed.
C5_MissingFileDegrades ==
    /\ result.op = "get_category_articles" =>
          LET views == result.value.articles
          IN  /\ Len(views) = Cardinality(ArticlesOf(result.category_id))
              /\ \A k \in 1..Len(views) :
                    Missing(views[k].filename) =>
                        (views[k].reading_time = 0 /\ views[k].excerpt = <<>>)
              /\ \A f \in ArticleFiles, t \in FileTexts :
                    Missing(f) =>
                        LET other == get_category_articles(
                                        BLOG_CATEGORIES, WithFile(files, f, t),
                                        result.category_id).articles
                        IN  /\ Len(other) = Len(views)
                            /\ \A k \in 1..Len(views) :
                                  views[k].filename # f => other[k] = views[k]
    /\ (result.op = "get_latest_article" /\ Places # {}) =>
          /\ result.value.some
          /\ Missing(result.value.val.filename) =>
                /\ result.value.val.reading_time = 0
                /\ result.value.val.excerpt = <<>>

\* a listing of two articles, the first one's file missing, the other's read
C5_Witness ==
    /\ result.op = "get_category_articles"
    /\ Len(result.value.articles) = 2
    /\ Missing(result.value.articles[1].filename)
    /\ result.value.articles[1].filename \in {File1, File2}
    /\ result.value.articles[1].reading_time = 0
    /\ result.value.articles[2].reading_time = 1
    /\ result.value.articles[2].excerpt # <<>>

\* filenames made only of word characters, dashes and dots
PlainNames == {"article1.txt", "article2.txt", "article3.txt", "app.py", "..", "."}
IsPlainFilename(filename) == Len(filename) = 1 /\ filename[1] \in PlainNames
UnderArticlesDir(path) ==
    Len(path) > Len(ARTICLES_DIR) /\ SubSeq(path, 1, Len(ARTICLES_DIR)) = ARTICLES_DIR

\* C9: get_article_content opens a file only if the filename consists solely
\* of word characters, dashes and dots and the resolved path lies under the
\* articles directory; no file outside the articles directory is ever read.
C9_OnlyArticleFilesOpened ==
    (result.op = "get_article_content" /\ result.opened.some) =>
        /\ IsPlainFilename(result.filename)
        /\ UnderArticlesDir(result.opened.val)

\* the views of the last listing call
ListedViews ==
    IF result.op = "get_category_articles" THEN Range(result.value.articles)
    ELSE IF result.op = "get_latest_article" /\ result.value.some
    THEN {result.value.val}
    ELSE {}

\* C10: in every view of get_category_articles and get_latest_article, when
\* the content file exists (an empty file included) reading_time is
\* calculate_reading_time(text) >= 1 and excerpt is get_excerpt(text);
\* reading_time = 0 only for a missing file.
C10_DerivedFieldsAgree ==
    \A view \in ListedViews :
        LET content == get_article_content(files, view.filename)
        IN  /\ content.some =>
                  /\ view.reading_time = calculate_reading_time(content.val)
                  /\ view.reading_time >= 1
                  /\ view.excerpt = get_excerpt(content.val, DEFAULT_SENTENCE_COUNT)
            /\ view.reading_time = 0 => ~content.some

(***************************************************************************)
(* Content Analyzer as a state machine: a text is drawn, then one of the   *)
(* three functions is applied to it.  The catalog and the file system play *)
(* no part.                                                                *)
(***************************************************************************)
AnalyzerInit(texts) ==
    /\ BLOG_CATEGORIES = <<>>
    /\ files = <<>>
    /\ text \in texts
    /\ result = NoCall

CalculateReadingTime ==
    /\ result' = [op |-> "calculate_reading_time",
                  value |-> calculate_reading_time(text)]
    /\ UNCHANGED <<BLOG_CATEGORIES, files, text>>

\* ---- inputs of calculate_reading_time
MaxWords == 520
MaxSmallLen == 4
SmallAlphabet == {"a", " ", "\n"}
SmallTexts == UNION {[1..n -> SmallAlphabet] : n \in 0..MaxSmallLen}
WordSeparators == {<<" ">>, <<"\n", "\t">>}

\* w two-letter words, each followed by sep
WordsText(w, sep) ==
    LET unit == <<"a", "b">> \o sep
    IN  [i \in 1..(w * Len(unit)) |-> unit[((i - 1) % Len(unit)) + 1]]

ReadingTimeTexts ==
    SmallTexts \cup {WordsText(w, sep) : w \in 0..MaxWords, sep \in WordSeparators}

InitReadingTime == AnalyzerInit(ReadingTimeTexts)
NextReadingTime == CalculateReadingTime
SpecReadingTime == InitReadingTime /\ [][NextReadingTime]_vars

Abs(x) == IF x < 0 THEN -x ELSE x

\* the number of whitespace-delimited words, counted at the words' ends
NumWords(s) ==
    Cardinality({i \in 1..Len(s) :
                    ~IsSpace(s[i]) /\ (i = Len(s) \/ IsSpace(s[i + 1]))})

\* C6: calculate_reading_time(text) is w / 200 rounded to the nearest integer
\* (n is nearest when |200 n - w| <= 100; of two nearest the code takes the
\* even one), raised to 1 when below 1; it is >= 1, and 1 for the empty text.
C6_ReadingTimeRounded ==
    result.op = "calculate_reading_time" =>
        LET w == NumWords(text)
        IN  /\ \E n \in 0..(w + 1) :
                  /\ 2 * Abs(WORDS_PER_MINUTE * n - w) <= WORDS_PER_MINUTE
                  /\ (2 * Abs(WORDS_PER_MINUTE * n - w) = WORDS_PER_MINUTE
                         => n % 2 = 0)
                  /\ result.value = Max(1, n)
            /\ result.value >= 1
            /\ (text = <<>> => result.value = 1)

\* a text of 350 words (1.75 minutes) is reported as 2 minutes
C6_Witness ==
    /\ result.op = "calculate_reading_time"
    /\ NumWords(text) = 350
    /\ result.value = 2

\* ---- inputs of get_excerpt
GetExcerpt(n) ==
    /\ result' = [op |-> "get_excerpt", sentence_count |-> n,
                  value |-> get_excerpt(text, n)]
    /\ UNCHANGED <<BLOG_CATEGORIES, files, text>>

MaxSentences == 2
MaxSentenceCount == 3

\* len characters, the last one the terminator
Sent(len, term) == Rep("a", len - 1) \o <<term>>

SentencePieces ==
    {Sent(2, "."), Sent(99, "."), Sent(100, "!"), Sent(101, "?"), Rep("a", 3)}
Joints == {<<" ">>, <<" ", "\n">>, <<>>}

RECURSIVE PiecesJoined(_, _, _)
PiecesJoined(pieces, joints, k) ==
    IF k = 0 THEN {}
    ELSE pieces \cup PiecesJoined(pieces, joints, k - 1)
            \cup {t \o j \o q : t \in PiecesJoined(pieces, joints, k - 1),
                                j \in joints, q \in pieces}

ExcerptTexts ==
    LET bare == PiecesJoined(SentencePieces, Joints, MaxSentences)
    IN  {<<>>, <<" ", "\n">>} \cup bare \cup {<<"\n">> \o t \o <<" ">> : t \in bare}

InitExcerpt == AnalyzerInit(ExcerptTexts)
NextExcerpt == \E n \in 0..MaxSentenceCount : GetExcerpt(n)
SpecExcerpt == InitExcerpt /\ [][NextExcerpt]_vars

NoSpace(s) == SelectSeq(s, LAMBDA c : ~IsSpace(c))
IsPrefix(a, b) == Len(a) <= Len(b) /\ a = Slice(b, 1, Len(a))

\* the first min(n, number of sentences) sentences joined by single spaces
FirstSentencesJoined(s, n) ==
    LET sentences == re_split_sentences(strip(s), 1)
    IN  join_space([k \in 1..Min(n, Len(sentences)) |-> sentences[k]])

\* C7: get_excerpt(text, n) is at most 200 characters long: the first
\* min(n, number of sentences) sentences joined by single spaces when that is
\* at most 200 characters, else its first 197 characters followed by "..."
\* (exactly 200 characters); the empty text gives the empty excerpt.
C7_ExcerptBounded ==
    result.op = "get_excerpt" =>
        LET joined == FirstSentencesJoined(text, result.sentence_count)
        IN  /\ Len(result.value) <= EXCERPT_MAX
            /\ Len(joined) <= EXCERPT_MAX =>
                  /\ result.value = joined
                  /\ IsPrefix(NoSpace(result.value), NoSpace(text))
            /\ Len(joined) > EXCERPT_MAX =>
                  /\ Len(result.value) = EXCERPT_MAX
                  /\ Slice(result.value, 1, EXCERPT_KEEP)
                        = Slice(joined, 1, EXCERPT_KEEP)
                  /\ Slice(result.value, EXCERPT_KEEP + 1, EXCERPT_MAX) = Ellipsis
            /\ (text = <<>> => result.value = <<>>)

\* two sentences of 100 characters join to 201 and are cut to 197 + "..."
C7_Witness ==
    /\ result.op = "get_excerpt"
    /\ result.sentence_count = DEFAULT_SENTENCE_COUNT
    /\ Len(FirstSentencesJoined(text, DEFAULT_SENTENCE_COUNT)) = EXCERPT_MAX + 1
    /\ Len(result.value) = EXCERPT_MAX
    /\ Slice(result.value, EXCERPT_KEEP + 1, EXCERPT_MAX) = Ellipsis

\* ---- inputs of parse_content
ParseContent ==
    /\ result' = [op |-> "parse_content", value |-> parse_content(text)]
    /\ UNCHANGED <<BLOG_CATEGORIES, files, text>>

MaxParagraphs == 2

PartWord == <<"P", "a", "r", "t">>
ParagraphPieces ==
    {PartWord \o <<" ", "1">>,
     PartWord \o <<" ", "1", ".">>,
     <<"p", "A", "R", "t", "\t", " ", "2", ".">>,
     PartWord \o <<"1", ".">>,
     PartWord \o <<" ", "x", ".">>,
     Rep("a", 79),
     Rep("a", 80),
     Rep("a", 78) \o <<".">>,
     PartWord \o <<" ", "7">> \o Rep("a", 80),
     PartWord \o <<" ">> \o Rep("a", 80),
     <<" ", "\t">>,
     <<>>,
     <<" ", "a", "\n", "b", " ">>}
ParagraphJoints ==
    {<<"\n", "\n">>, <<"\n", "\n", "\n">>, <<"\n">>, <<"\n", " ", "\n">>}

ParseTexts == PiecesJoined(ParagraphPieces, ParagraphJoints, MaxParagraphs)

InitParse == AnalyzerInit(ParseTexts)
NextParse == ParseContent
SpecParse == InitParse /\ [][NextParse]_vars

HasDoubleNewline(s) == \E i \in 1..(Len(s) - 1) : s[i] = "\n" /\ s[i + 1] = "\n"

\* "Part" in any letter case, then whitespace, then a digit
StartsWithPartNumber(c) ==
    /\ Len(c) >= 6
    /\ c[1] \in {"P", "p"} /\ c[2] \in {"A", "a"}
    /\ c[3] \in {"R", "r"} /\ c[4] \in {"T", "t"}
    /\ \E k \in 5..(Len(c) - 1) :
          /\ \A j \in 5..k : c[j] \in Whitespace
          /\ c[k + 1] \in Digits

\* C8: parse_content(text) returns, in order, one block per paragraph (the
\* pieces between double newlines, trimmed, the empty ones dropped): no block
\* is empty, a blank text gives no block, and a block is a heading iff it
\* starts with "Part" + whitespace + digit (any case) or is shorter than 80
\* characters and does not end with a period; otherwise it is a paragraph.
C8_ParseContentBlocks ==
    result.op = "parse_content" =>
        LET blocks == result.value
        IN  /\ \A k \in 1..Len(blocks) :
                  LET c == blocks[k].content
                  IN  /\ c # <<>>
                      /\ ~IsSpace(c[1]) /\ ~IsSpace(c[Len(c)])
                      /\ ~HasDoubleNewline(c)
                      /\ blocks[k].type \in {"heading", "paragraph"}
                      /\ blocks[k].type = "heading" <=>
                            \/ StartsWithPartNumber(c)
                            \/ (Len(c) < HEADING_MAX_LEN /\ c[Len(c)] # ".")
            /\ [k \in 1..Len(blocks) |-> blocks[k].content]
                  = strip_nonblank(split_paragraphs(text, 1))
            /\ Concat([k \in 1..Len(blocks) |-> NoSpace(blocks[k].content)])
                  = NoSpace(text)
            /\ (IsBlank(text) => blocks = <<>>)

\* a long "Part 7..." heading next to an 80-character paragraph
C8_Witness ==
    /\ result.op = "parse_content"
    /\ Len(result.value) = 2
    /\ result.value[1].type = "heading"
    /\ Len(result.value[1].content) >= HEADING_MAX_LEN
    /\ result.value[2].type = "paragraph"
    /\ Len(result.value[2].content) = HEADING_MAX_LEN
    /\ ~EndsWithPeriod(result.value[2].content)

====
